---- MODULE Spec2Model ----
(***************************************************************************)
(* school-api: the auth controller (in-memory user store, register, login, *)
(* getAllUsers), the route wiring with the authenticateToken gateway, and  *)
(* the per-entity buildQueryOptions / list handlers.                       *)
(***************************************************************************)
EXTENDS Integers, Sequences, FiniteSets, TLC

----------------------------------------------------------------------------
(* Bounds of the model *)

\* user records plus registrations in flight
MaxUsers == 2
\* tokens issued plus logins suspended at the comparison
MaxLogins == 1
\* clock advances in one behaviour
MaxTicks == 3
\* rows the student repository may hold
MaxStudents == 1
\* characters of a raw limit and of a raw page
MaxLimitLen == 2
MaxPageLen == 2
\* rows of a listed table
MaxTotal == 3
\* register and login requests followed from arrival to response
MaxRequests == 2

----------------------------------------------------------------------------
(* Program constants *)

\* auth.controller.js:7  parseInt(process.env.SALT_ROUNDS) || 10
SALT_ROUNDS == 10
\* auth.controller.js:120  expiresIn: '1h', in seconds as jsonwebtoken counts
ExpiresIn == 3600

----------------------------------------------------------------------------
(* Request inputs.  "" stands for a field that is absent or empty: both    *)
(* are falsy in the handlers' checks.                                      *)

Names == {"", "Alice"}
Emails == {"", "a@x.io", "b@x.io"}
\* a JSON number sent as the password: truthy, but not a string
NumberPassword == "<number 123>"
Passwords == {"", "pw1", "pw2", NumberPassword}
\* how far the clock moves in one step (seconds)
TickSteps == {1, ExpiresIn}

\* the name in the body of a student request
StudentNames == {"Ann", "Ben"}

RegBodies == [name : Names, email : Emails, password : Passwords]
LoginBodies == [email : Emails, password : Passwords]

\* the login bodies sent where the gateway and the clock are explored
GatewayLoginBodies ==
    [email : {"", "a@x.io"}, password : {"pw1", "pw2", NumberPassword}]

\* the bodies sent where each request is followed to its response
RequestRegBodies ==
    [name : {"Alice"}, email : {"", "a@x.io"},
     password : {"pw1", "pw2", NumberPassword}]
RequestLoginBodies == GatewayLoginBodies

IsString(p) == p # NumberPassword

Min(S) == CHOOSE x \in S : \A y \in S : x <= y

----------------------------------------------------------------------------
(* bcryptjs and jsonwebtoken, by what the handlers rely on *)

\* bcrypt.hash(password, SALT_ROUNDS): a salted one-way value.  The salt is
\* drawn afresh for every hash: the n-th hash of a run gets the n-th salt.
BcryptHash(password, rounds, salt) ==
    [alg |-> "bcrypt", rounds |-> rounds, salt |-> salt, of |-> password]

\* bcrypt.compare(password, hash)
BcryptCompare(password, hash) ==
    hash = BcryptHash(password, hash.rounds, hash.salt)

NoHash == [alg |-> "none", rounds |-> 0, salt |-> 0, of |-> ""]
NoUser == [id |-> 0, name |-> "", email |-> "", passwordHash |-> NoHash]

\* a token that lives half an hour
JwtSignBadExpiry(user, t) ==
    [id |-> user.id, email |-> user.email, iat |-> t,
     exp |-> t + (ExpiresIn \div 2), sig |-> "JWT_SECRET"]

\* jwt.sign({ id, email }, JWT_SECRET, { expiresIn: '1h' }) at clock time t
JwtSign(user, t) ==
    [id |-> user.id, email |-> user.email, iat |-> t,
     exp |-> t + ExpiresIn, sig |-> "JWT_SECRET"]

\* Token Service verify (spec 4.1): signature first, then expiry
JwtVerify(token, t) ==
    IF token.sig # "JWT_SECRET" THEN "MalformedToken"
    ELSE IF t > token.exp THEN "ExpiredToken"
    ELSE "ok"

NoToken == [id |-> 0, email |-> "", iat |-> 0, exp |-> 0, sig |-> ""]

\* the same payload signed with a secret that is not JWT_SECRET
Forge(token) == [token EXCEPT !.sig = "another secret"]

----------------------------------------------------------------------------
(* Routes: the app (part_001) mounts the routers, the auth router          *)
(* (part_000) maps its paths                                               *)

UsersRoute == [method |-> "GET", mount |-> "/auth", path |-> "/users"]
StudentsList == [method |-> "GET", mount |-> "/students", path |-> "/"]
StudentsCreate == [method |-> "POST", mount |-> "/students", path |-> "/"]
StudentsGet == [method |-> "GET", mount |-> "/students", path |-> "/:id"]
StudentsUpdate == [method |-> "PUT", mount |-> "/students", path |-> "/:id"]
StudentsDelete == [method |-> "DELETE", mount |-> "/students", path |-> "/:id"]
CoursesList == [method |-> "GET", mount |-> "/courses", path |-> "/"]
TeachersList == [method |-> "GET", mount |-> "/teachers", path |-> "/"]

Routes == {UsersRoute, StudentsList, StudentsCreate, StudentsGet,
           StudentsUpdate, StudentsDelete, CoursesList, TeachersList}

\* an app that mounts every router without middleware
AppMiddlewareOpen(mount) == {}

\* part_001:25-30  app.use(mount, [authenticateToken,] router)

AppMiddleware(mount) ==
    IF mount = "/students" THEN {"authenticateToken"} ELSE {}

\* an auth router without middleware
AuthRouterMiddlewareOpen(method, path) == {}

\* part_000:7-9  router.<method>(path, [authenticateToken,] handler)

AuthRouterMiddleware(method, path) ==
    IF method = "GET" /\ path = "/users" THEN {"authenticateToken"} ELSE {}

\* the middleware a request passes before its handler
Middleware(route) ==
    AppMiddleware(route.mount) \cup
    (IF route.mount = "/auth"
     THEN AuthRouterMiddleware(route.method, route.path) ELSE {})

\* Authorization headers a client may send
NoHeader == [present |-> FALSE, scheme |-> "", token |-> NoToken]

Headers(tokens) ==
    {NoHeader} \cup
    [present : {TRUE}, scheme : {"Bearer"},
     token : tokens \cup {Forge(t) : t \in tokens} \cup {NoToken}] \cup
    [present : {TRUE}, scheme : {"Basic"}, token : tokens]

\* Auth Gateway (spec 4.2): the verdict on one request at clock time t
AuthenticateToken(header, t) ==
    IF ~header.present THEN "Unauthenticated"
    ELSE IF header.scheme # "Bearer" \/ header.token = NoToken
    THEN "Unauthenticated"
    ELSE IF JwtVerify(header.token, t) # "ok" THEN "Unauthenticated"
    ELSE "ok"

----------------------------------------------------------------------------
(* Query strings.  A raw query value is a sequence of characters; <<>> is  *)
(* a parameter that is absent or empty (parseInt, Number and || treat the  *)
(* two alike).                                                             *)

Chars == {"-", "0", "5", ".", "a"}

RECURSIVE StringsUpTo(_)
StringsUpTo(n) ==
    IF n = 0 THEN {<<>>}
    ELSE LET shorter == StringsUpTo(n - 1)
         IN  shorter \cup {Append(s, c) : s \in shorter, c \in Chars}

\* string literals of the controllers and of the requests, as characters
SORT_DESC == <<"d", "e", "s", "c">>
SORT_DESC_UPPER == <<"D", "E", "S", "C">>
SORT_DESC_MIXED == <<"D", "e", "S", "c">>
SORT_ASC == <<"a", "s", "c">>
SORT_UP == <<"u", "p">>
POP_COURSE == <<"c", "o", "u", "r", "s", "e">>
POP_COURSE_ALL == <<"c", "o", "u", "r", "s", "e", ",", " ", "A", "L", "L">>
POP_ALL == <<"a", "l", "l">>
POP_TEACHER == <<"t", "e", "a", "c", "h", "e", "r">>
POP_STUDENT_TEACHER == <<"S", "t", "u", "d", "e", "n", "t", ",", "t", "e", "a", "c", "h", "e", "r">>
POP_PADDED == <<" ", "C", "O", "U", "R", "S", "E", " ">>
POP_UNKNOWN == <<"g", "r", "a", "d", "e">>
POP_MIXED == <<"s", "t", "u", "d", "e", "n", "t", ",", "g", "r", "a", "d", "e">>
REL_COURSE == <<"c", "o", "u", "r", "s", "e">>
REL_ALL == <<"a", "l", "l">>
REL_STUDENT == <<"s", "t", "u", "d", "e", "n", "t">>
REL_TEACHER == <<"t", "e", "a", "c", "h", "e", "r">>

Sorts == {<<>>, SORT_DESC, SORT_DESC_UPPER, SORT_DESC_MIXED, SORT_ASC, SORT_UP}

Populates == {<<>>, POP_COURSE, POP_COURSE_ALL, POP_ALL, POP_TEACHER,
              POP_STUDENT_TEACHER, POP_PADDED, POP_UNKNOWN, POP_MIXED}

\* the rows a repository may hold: n rows, in createdAt order
Tables == {[i \in 1..n |-> i] : n \in 0..MaxTotal}

PagingQueries ==
    [limit : StringsUpTo(MaxLimitLen), page : StringsUpTo(MaxPageLen),
     sort : {<<>>}, populate : {<<>>}]
IncludeQueries ==
    [limit : {<<>>, <<"5">>}, page : {<<>>, <<"5">>},
     sort : Sorts, populate : Populates]
Queries == PagingQueries \cup IncludeQueries

NoQuery == [limit |-> <<>>, page |-> <<>>, sort |-> <<>>, populate |-> <<>>]

Entities == {"Student", "Teacher", "Course"}

----------------------------------------------------------------------------
(* JavaScript conversions used by the controllers *)

IsDigit(c) == c \in {"0", "1", "2", "3", "4", "5", "6", "7", "8", "9"}

DigitValue(c) ==
    CASE c = "0" -> 0 [] c = "1" -> 1 [] c = "2" -> 2 [] c = "3" -> 3
      [] c = "4" -> 4 [] c = "5" -> 5 [] c = "6" -> 6 [] c = "7" -> 7
      [] c = "8" -> 8 [] c = "9" -> 9

\* the value of a sequence of digits (0 for the empty sequence)
RECURSIVE DigitsValue(_)
DigitsValue(s) ==
    IF s = <<>> THEN 0
    ELSE 10 * DigitsValue(SubSeq(s, 1, Len(s) - 1)) + DigitValue(s[Len(s)])

\* length of the longest prefix of s made of digits
RECURSIVE DigitPrefix(_)
DigitPrefix(s) ==
    IF s = <<>> \/ ~IsDigit(Head(s)) THEN 0 ELSE 1 + DigitPrefix(Tail(s))

Pow10(n) == 10 ^ n

\* a JavaScript number: NaN, or fp / Scale
Scale == Pow10((IF MaxLimitLen > MaxPageLen THEN MaxLimitLen ELSE MaxPageLen) - 1)
NaN == [nan |-> TRUE, fp |-> 0]
Num(fp) == [nan |-> FALSE, fp |-> fp]
Int2Num(i) == Num(i * Scale)

\* parseInt(s): optional sign, then the longest run of digits; NaN without
\* a digit
ParseInt(s) ==
    LET neg == s # <<>> /\ Head(s) = "-"
        body == IF neg THEN Tail(s) ELSE s
        n == DigitPrefix(body)
        v == DigitsValue(SubSeq(body, 1, n))
    IN  IF n = 0 THEN NaN ELSE Int2Num(IF neg THEN -v ELSE v)

\* Number(s): the whole string must be a numeric literal; "" is 0
Number(s) ==
    LET neg == s # <<>> /\ Head(s) = "-"
        body == IF neg THEN Tail(s) ELSE s
        n == DigitPrefix(body)
        rest == SubSeq(body, n + 1, Len(body))
        dot == rest # <<>> /\ Head(rest) = "."
        frac == IF dot THEN Tail(rest) ELSE <<>>
        m == DigitPrefix(frac)
        wellFormed == /\ rest = <<>> \/ dot
                      /\ m = Len(frac)
                      /\ n + m > 0
        v == DigitsValue(SubSeq(body, 1, n)) * Scale
             + (DigitsValue(frac) * Scale) \div Pow10(m)
    IN  IF s = <<>> THEN Num(0)
        ELSE IF ~wellFormed THEN NaN
        ELSE Num(IF neg THEN -v ELSE v)

\* x || d  for numbers: NaN and 0 are falsy
OrDefault(x, d) == IF x.nan \/ x.fp = 0 THEN Int2Num(d) ELSE x

\* Math.max(x, m) for a number that is not NaN
MathMax(x, m) == IF x.fp < m * Scale THEN Int2Num(m) ELSE x

\* the integer a number holds
AsInt(x) == x.fp \div Scale

\* Math.ceil(a / b) for integers a, b with b # 0
CeilDiv(a, b) == IF b > 0 THEN -((-a) \div b) ELSE -(a \div (-b))

UpperCase == <<"A", "B", "C", "D", "E", "F", "G", "H", "I", "J", "K", "L", "M",
               "N", "O", "P", "Q", "R", "S", "T", "U", "V", "W", "X", "Y", "Z">>
LowerCase == <<"a", "b", "c", "d", "e", "f", "g", "h", "i", "j", "k", "l", "m",
               "n", "o", "p", "q", "r", "s", "t", "u", "v", "w", "x", "y", "z">>

\* String.prototype.toLowerCase
ToLowerCase(s) ==
    [i \in 1..Len(s) |->
        IF \E k \in 1..26 : UpperCase[k] = s[i]
        THEN LowerCase[CHOOSE k \in 1..26 : UpperCase[k] = s[i]]
        ELSE s[i]]

\* String.prototype.trim
RECURSIVE TrimStart(_)
TrimStart(s) == IF s # <<>> /\ Head(s) = " " THEN TrimStart(Tail(s)) ELSE s
RECURSIVE TrimEnd(_)
TrimEnd(s) ==
    IF s # <<>> /\ s[Len(s)] = " "
    THEN TrimEnd(SubSeq(s, 1, Len(s) - 1)) ELSE s
Trim(s) == TrimEnd(TrimStart(s))

\* String.prototype.split(','): the pieces between the commas
RECURSIVE Split(_)
Split(s) ==
    LET commas == {i \in 1..Len(s) : s[i] = ","}
    IN  IF commas = {} THEN <<s>>
        ELSE LET i == Min(commas)
             IN  <<SubSeq(s, 1, i - 1)>> \o Split(SubSeq(s, i + 1, Len(s)))

\* Array.prototype.includes
Includes(seq, x) == \E i \in 1..Len(seq) : seq[i] = x

\* the pieces lowercased but not trimmed
RelationsNoTrim(populate) ==
    LET parts == Split(populate)
    IN  [i \in 1..Len(parts) |-> ToLowerCase(parts[i])]

\* query.populate.split(',').map(r => r.trim().toLowerCase())
Relations(populate) ==
    LET parts == Split(populate)
    IN  [i \in 1..Len(parts) |-> ToLowerCase(Trim(parts[i]))]

\* (query.sort || 'asc').toLowerCase() === 'desc' ? 'DESC' : 'ASC'
SortDir(sort) ==
    IF ToLowerCase(IF sort = <<>> THEN SORT_ASC ELSE sort) = SORT_DESC
    THEN "DESC" ELSE "ASC"

----------------------------------------------------------------------------
(* buildQueryOptions, once per controller *)

\* a builder whose limit is floored at 0
BuildQueryOptionsFloorZero(query) ==
    LET limit == AsInt(MathMax(OrDefault(ParseInt(query.limit), 10), 0))
        page == AsInt(MathMax(OrDefault(ParseInt(query.page), 1), 1))
        offset == (page - 1) * limit
    IN  [limit |-> limit, offset |-> offset,
         order |-> <<<<"createdAt", SortDir(query.sort)>>>>,
         include |-> <<>>]

\* part_002:6-25 (student controller)
BuildQueryOptionsStudent(query) ==
    LET limit == AsInt(MathMax(OrDefault(ParseInt(query.limit), 10), 1))
        page == AsInt(MathMax(OrDefault(ParseInt(query.page), 1), 1))
        offset == (page - 1) * limit
        order == <<<<"createdAt", SortDir(query.sort)>>>>
        relations == Relations(query.populate)
        include ==
            IF query.populate = <<>> THEN <<>>
            ELSE IF Includes(relations, REL_COURSE) \/ Includes(relations, REL_ALL)
                 THEN <<"Course">> ELSE <<>>
    IN  [limit |-> limit, offset |-> offset, order |-> order,
         include |-> include]

\* part_003:6-25 (teacher controller)
BuildQueryOptionsTeacher(query) ==
    LET limit == AsInt(MathMax(OrDefault(ParseInt(query.limit), 10), 1))
        page == AsInt(MathMax(OrDefault(ParseInt(query.page), 1), 1))
        offset == (page - 1) * limit
        order == <<<<"createdAt", SortDir(query.sort)>>>>
        relations == Relations(query.populate)
        include ==
            IF query.populate = <<>> THEN <<>>
            ELSE IF Includes(relations, REL_COURSE) \/ Includes(relations, REL_ALL)
                 THEN <<"Course">> ELSE <<>>
    IN  [limit |-> limit, offset |-> offset, order |-> order,
         include |-> include]

\* part_003:224-243 (course controller)
BuildQueryOptionsCourse(query) ==
    LET limit == AsInt(MathMax(OrDefault(ParseInt(query.limit), 10), 1))
        page == AsInt(MathMax(OrDefault(ParseInt(query.page), 1), 1))
        offset == (page - 1) * limit
        order == <<<<"createdAt", SortDir(query.sort)>>>>
        relations == Relations(query.populate)
        include ==
            IF query.populate = <<>> THEN <<>>
            ELSE (IF Includes(relations, REL_STUDENT) \/ Includes(relations, REL_ALL)
                  THEN <<"Student">> ELSE <<>>)
                 \o
                 (IF Includes(relations, REL_TEACHER) \/ Includes(relations, REL_ALL)
                  THEN <<"Teacher">> ELSE <<>>)
    IN  [limit |-> limit, offset |-> offset, order |-> order,
         include |-> include]

BuildQueryOptions(entity, query) ==
    CASE entity = "Student" -> BuildQueryOptionsStudent(query)
      [] entity = "Teacher" -> BuildQueryOptionsTeacher(query)
      [] entity = "Course" -> BuildQueryOptionsCourse(query)

\* Model.findAndCountAll(opts) on a table whose rows are in createdAt order
FindAndCountAll(table, opts) ==
    LET n == Len(table)
        ordered == IF opts.order[1][2] = "DESC"
                   THEN [i \in 1..n |-> table[n + 1 - i]] ELSE table
        first == opts.offset + 1
        lastRow == IF opts.offset + opts.limit < n
                   THEN opts.offset + opts.limit ELSE n
    IN  [count |-> n, rows |-> SubSeq(ordered, first, lastRow)]

\* res.json({ total, page, limit, totalPages, data }) of the list handlers;
\* page and limit are numbers in units of 1 / Scale
\* getAllStudents: part_002:86-100
GetAllStudentsBody(query, table) ==
    LET opts == BuildQueryOptionsStudent(query)
        found == FindAndCountAll(table, opts)
    IN  [total |-> found.count,
         page |-> OrDefault(Number(query.page), 1).fp,
         limit |-> OrDefault(Number(query.limit), 10).fp,
         totalPages |-> CeilDiv(found.count * Scale,
                                OrDefault(Number(query.limit), 10).fp),
         data |-> found.rows]

\* getAllTeachers: part_003:99-113
GetAllTeachersBody(query, table) ==
    LET opts == BuildQueryOptionsTeacher(query)
        found == FindAndCountAll(table, opts)
    IN  [total |-> found.count,
         page |-> OrDefault(Number(query.page), 1).fp,
         limit |-> OrDefault(Number(query.limit), 10).fp,
         totalPages |-> CeilDiv(found.count * Scale,
                                OrDefault(Number(query.limit), 10).fp),
         data |-> found.rows]

\* getAllCourses: part_003:318-333
GetAllCoursesBody(query, table) ==
    LET opts == BuildQueryOptionsCourse(query)
        found == FindAndCountAll(table, opts)
    IN  [total |-> found.count,
         page |-> OrDefault(Number(query.page), 1).fp,
         limit |-> OrDefault(Number(query.limit), 10).fp,
         totalPages |-> CeilDiv(found.count * Scale,
                                OrDefault(Number(query.limit), 10).fp),
         data |-> found.rows]

GetAllBody(entity, query, table) ==
    CASE entity = "Student" -> GetAllStudentsBody(query, table)
      [] entity = "Teacher" -> GetAllTeachersBody(query, table)
      [] entity = "Course" -> GetAllCoursesBody(query, table)

----------------------------------------------------------------------------
(* State *)

VARIABLES
    users,          \* auth.controller.js:4  const users = []
    idCounter,      \* auth.controller.js:5  let idCounter = 1
    pendingReg,     \* register calls suspended at  await bcrypt.hash
    pendingLogin,   \* login calls suspended at  await bcrypt.compare, each
                    \* with the store its lookup saw
    last,           \* the response sent most recently
    answered201,    \* emails for which a register has been answered 201
    issued,         \* tokens returned by login so far
    students,       \* the rows of the student repository: id -> name
    studentId,      \* next auto-assigned student id
    now,            \* clock, in seconds
    ticks,          \* clock advances so far
    list,           \* the list request served most recently, with its answer
    requests        \* the register and login requests followed, in order
                    \* of arrival, each with the responses sent to it

vars == <<users, idCounter, pendingReg, pendingLogin, last,
          answered201, issued, students, studentId, now, ticks, list,
          requests>>

----------------------------------------------------------------------------
(* Helpers of the auth controller *)

\* a lookup that finds nothing
FindUserNever(us, email) == NoUser

\* users.find(u => u.email === email): the first match, or undefined
FindUser(us, email) ==
    LET idx == {i \in 1..Len(us) : us[i].email = email}
    IN  IF idx = {} THEN NoUser ELSE us[Min(idx)]

\* a projection that drops nothing
KeepAll(rec, field) == rec

\* const { passwordHash: _, ...publicUser } = newUser
\* users.map(({ passwordHash, ...u }) => u)

Omit(rec, field) == [f \in DOMAIN rec \ {field} |-> rec[f]]

\* a response as the client sees it (status, body), with the request that
\* caused it and whether the route handler ran.  A body is a record; a JSON
\* array is the record [items |-> <<...>>].
Response(kind, req, status, body, ran) ==
    [kind |-> kind, req |-> req, status |-> status, body |-> body,
     handlerRan |-> ran]

NoResponse == Response("none", [none |-> TRUE], 0, [none |-> TRUE], FALSE)

\* a list request: received, then served
ListReceived(entity, query, table) ==
    [entity |-> entity, query |-> query, table |-> table, served |-> FALSE,
     opts |-> [none |-> TRUE], body |-> [none |-> TRUE]]

NoList == [entity |-> "none", query |-> NoQuery, table |-> <<>>,
           served |-> TRUE, opts |-> [none |-> TRUE], body |-> [none |-> TRUE]]

\* the position of a suspended call among the calls in flight
FreeSlot(S) ==
    Min({i \in 1..(Cardinality(S) + 1) : \A p \in S : p.slot # i})

Init ==
    /\ users = <<>>
    /\ idCounter = 1
    /\ pendingReg = {}
    /\ pendingLogin = {}
    /\ last = NoResponse
    /\ answered201 = {}
    /\ issued = {}
    /\ students = <<>>
    /\ studentId = 1
    /\ now = 0
    /\ ticks = 0
    /\ list = NoList
    /\ requests = <<>>

----------------------------------------------------------------------------
(* register: auth.controller.js:54-72 *)

\* a handler that draws the id before it looks the email up
RegisterStartConsumesId(b) ==
    /\ IF b.name = "" \/ b.email = "" \/ b.password = ""
       THEN /\ last' = Response("register", b, 400,
                   [message |-> "Name, email, and password are required"],
                   TRUE)
            /\ UNCHANGED <<pendingReg, idCounter>>
       ELSE IF FindUser(users, b.email) # NoUser
       THEN /\ last' = Response("register", b, 409,
                   [message |-> "Email already registered"], TRUE)
            /\ idCounter' = idCounter + 1
            /\ UNCHANGED pendingReg
       ELSE /\ Len(users) + Cardinality(pendingReg) < MaxUsers
            /\ pendingReg' = pendingReg \cup
                   {[slot |-> FreeSlot(pendingReg), body |-> b]}
            /\ UNCHANGED <<last, idCounter>>
    /\ UNCHANGED <<users, pendingLogin, answered201, issued,
                   students, studentId, now, ticks, list>>

\* a handler that looks the email up before it checks the fields
RegisterStartLookupFirst(b) ==
    /\ IF FindUser(users, b.email) # NoUser
       THEN /\ last' = Response("register", b, 409,
                   [message |-> "Email already registered"], TRUE)
            /\ UNCHANGED pendingReg
       ELSE IF b.name = "" \/ b.email = "" \/ b.password = ""
       THEN /\ last' = Response("register", b, 400,
                   [message |-> "Name, email, and password are required"],
                   TRUE)
            /\ UNCHANGED pendingReg
       ELSE /\ Len(users) + Cardinality(pendingReg) < MaxUsers
            /\ pendingReg' = pendingReg \cup
                   {[slot |-> FreeSlot(pendingReg), body |-> b]}
            /\ UNCHANGED last
    /\ UNCHANGED <<users, idCounter, pendingLogin, answered201, issued,
                   students, studentId, now, ticks, list>>

\* lines 56-61 and the call of bcrypt.hash on line 63, up to the await
RegisterStart(b) ==
    /\ IF b.name = "" \/ b.email = "" \/ b.password = ""
       THEN /\ last' = Response("register", b, 400,
                   [message |-> "Name, email, and password are required"],
                   TRUE)
            /\ UNCHANGED pendingReg
       ELSE IF FindUser(users, b.email) # NoUser
       THEN /\ last' = Response("register", b, 409,
                   [message |-> "Email already registered"], TRUE)
            /\ UNCHANGED pendingReg
       ELSE /\ Len(users) + Cardinality(pendingReg) < MaxUsers
            /\ pendingReg' = pendingReg \cup
                   {[slot |-> FreeSlot(pendingReg), body |-> b]}
            /\ UNCHANGED last
    /\ UNCHANGED <<users, idCounter, pendingLogin, answered201, issued,
                   students, studentId, now, ticks, list>>

\* an insertion that reads idCounter without advancing it
RegisterFinishSameId(p) ==
    /\ p \in pendingReg
    /\ IsString(p.body.password)
    /\ LET passwordHash == BcryptHash(p.body.password, SALT_ROUNDS, idCounter)
           newUser == [id |-> idCounter, name |-> p.body.name,
                       email |-> p.body.email, passwordHash |-> passwordHash]
       IN  /\ UNCHANGED idCounter
           /\ users' = Append(users, newUser)
           /\ last' = Response("register", p.body, 201,
                               Omit(newUser, "passwordHash"), TRUE)
    /\ answered201' = answered201 \cup {p.body.email}
    /\ pendingReg' = pendingReg \ {p}
    /\ UNCHANGED <<pendingLogin, issued, students, studentId, now, ticks, list>>

\* lines 63-68: the hash resolves, the record is inserted and returned
RegisterFinish(p) ==
    /\ p \in pendingReg
    /\ IsString(p.body.password)
    /\ LET passwordHash == BcryptHash(p.body.password, SALT_ROUNDS, idCounter)
           newUser == [id |-> idCounter, name |-> p.body.name,
                       email |-> p.body.email, passwordHash |-> passwordHash]
       IN  /\ idCounter' = idCounter + 1
           /\ users' = Append(users, newUser)
           /\ last' = Response("register", p.body, 201,
                               Omit(newUser, "passwordHash"), TRUE)
    /\ answered201' = answered201 \cup {p.body.email}
    /\ pendingReg' = pendingReg \ {p}
    /\ UNCHANGED <<pendingLogin, issued, students, studentId, now, ticks, list>>

\* a catch block that swallows the error and sends nothing
RegisterErrorSilent(p) ==
    /\ p \in pendingReg
    /\ ~IsString(p.body.password)
    /\ pendingReg' = pendingReg \ {p}
    /\ UNCHANGED <<users, idCounter, pendingLogin, last, answered201,
                   issued, students, studentId, now, ticks, list>>

\* lines 63, 69-71: bcrypt.hash rejects a password that is not a string
RegisterError(p) ==
    /\ p \in pendingReg
    /\ ~IsString(p.body.password)
    /\ last' = Response("register", p.body, 500,
                        [message |-> "Illegal arguments: number, number"],
                        TRUE)
    /\ pendingReg' = pendingReg \ {p}
    /\ UNCHANGED <<users, idCounter, pendingLogin, answered201,
                   issued, students, studentId, now, ticks, list>>

----------------------------------------------------------------------------
(* login: auth.controller.js:110-125 *)

\* lines 112-117, up to the await of bcrypt.compare
LoginStart(b) ==
    /\ IF b.email = "" \/ b.password = ""
       THEN /\ last' = Response("login", b, 400,
                   [message |-> "Email and password are required"], TRUE)
            /\ UNCHANGED pendingLogin
       ELSE IF FindUser(users, b.email) = NoUser
       THEN /\ last' = Response("login", b, 401,
                   [message |-> "Invalid credentials"], TRUE)
            /\ UNCHANGED pendingLogin
       ELSE /\ Cardinality(pendingLogin) + Cardinality(issued) < MaxLogins
            /\ pendingLogin' = pendingLogin \cup
                   {[slot |-> FreeSlot(pendingLogin), body |-> b,
                     user |-> FindUser(users, b.email), seen |-> users]}
            /\ UNCHANGED last
    /\ UNCHANGED <<users, idCounter, pendingReg, answered201, issued,
                   students, studentId, now, ticks, list>>

\* lines 117-121: the comparison resolves
LoginFinish(p) ==
    /\ p \in pendingLogin
    /\ IsString(p.body.password)
    /\ IF BcryptCompare(p.body.password, p.user.passwordHash)
       THEN LET token == JwtSign(p.user, now)
            IN  /\ last' = Response("login", p.body, 200, [token |-> token],
                                    TRUE)
                /\ issued' = issued \cup {token}
       ELSE /\ last' = Response("login", p.body, 401,
                                [message |-> "Invalid credentials"], TRUE)
            /\ UNCHANGED issued
    /\ pendingLogin' = pendingLogin \ {p}
    /\ UNCHANGED <<users, idCounter, pendingReg, answered201,
                   students, studentId, now, ticks, list>>

\* lines 117, 122-124: bcrypt.compare rejects a password that is not a string
LoginError(p) ==
    /\ p \in pendingLogin
    /\ ~IsString(p.body.password)
    /\ last' = Response("login", p.body, 500,
                        [message |-> "Illegal arguments: number, string"],
                        TRUE)
    /\ pendingLogin' = pendingLogin \ {p}
    /\ UNCHANGED <<users, idCounter, pendingReg, answered201,
                   issued, students, studentId, now, ticks, list>>

----------------------------------------------------------------------------
(* Route handlers behind the router *)

\* getAllUsers: auth.controller.js:155-158
GetAllUsers(req) ==
    /\ last' = Response("http", req, 200,
                 [items |-> [i \in 1..Len(users) |->
                                Omit(users[i], "passwordHash")]],
                 TRUE)
    /\ UNCHANGED <<students, studentId>>

\* the table with one more row / with one row less
WithRow(rows, id, name) ==
    [i \in DOMAIN rows \cup {id} |-> IF i = id THEN name ELSE rows[i]]
WithoutRow(rows, id) == [i \in DOMAIN rows \ {id} |-> rows[i]]

\* createStudent: part_002:50-57
CreateStudent(req, name) ==
    /\ studentId <= MaxStudents
    /\ students' = WithRow(students, studentId, name)
    /\ studentId' = studentId + 1
    /\ last' = Response("http", req, 201,
                        [id |-> studentId, name |-> name], TRUE)

\* getStudentById: part_002:123-132
GetStudentById(req, id) ==
    /\ IF id \notin DOMAIN students
       THEN last' = Response("http", req, 404, [message |-> "Not found"],
                             TRUE)
       ELSE last' = Response("http", req, 200,
                             [id |-> id, name |-> students[id]], TRUE)
    /\ UNCHANGED <<students, studentId>>

\* updateStudent: part_002:155-164
UpdateStudent(req, id, name) ==
    IF id \notin DOMAIN students
    THEN /\ last' = Response("http", req, 404, [message |-> "Not found"],
                              TRUE)
         /\ UNCHANGED <<students, studentId>>
    ELSE /\ students' = WithRow(students, id, name)
         /\ last' = Response("http", req, 200,
                              [id |-> id, name |-> name], TRUE)
         /\ UNCHANGED studentId

\* deleteStudent: part_002:181-190
DeleteStudent(req, id) ==
    IF id \notin DOMAIN students
    THEN /\ last' = Response("http", req, 404, [message |-> "Not found"],
                              TRUE)
         /\ UNCHANGED <<students, studentId>>
    ELSE /\ students' = WithoutRow(students, id)
         /\ last' = Response("http", req, 200, [message |-> "Deleted"], TRUE)
         /\ UNCHANGED studentId

\* the rows of a table of the given ids, in createdAt order
RECURSIVE TableOf(_)
TableOf(ids) ==
    IF ids = {} THEN <<>> ELSE <<Min(ids)>> \o TableOf(ids \ {Min(ids)})

\* getAllStudents, getAllTeachers, getAllCourses on a request without query
\* parameters
GetAll(req, entity, ids) ==
    /\ last' = Response("http", req, 200,
                        GetAllBody(entity, NoQuery, TableOf(ids)), TRUE)
    /\ UNCHANGED <<students, studentId>>

\* one request to a routed path, with the :id of its path and the name of
\* its body: the middleware of the route, then its handler
Http(route, header, id, name) ==
    LET req == [route |-> route, header |-> header]
    IN  /\ IF "authenticateToken" \in Middleware(route)
              /\ AuthenticateToken(header, now) # "ok"
           THEN /\ last' = Response("http", req, 401,
                                   [message |-> "Unauthenticated"], FALSE)
                /\ UNCHANGED <<students, studentId>>
           ELSE CASE route = UsersRoute -> GetAllUsers(req)
                  [] route = StudentsList ->
                        GetAll(req, "Student", DOMAIN students)
                  [] route = StudentsCreate -> CreateStudent(req, name)
                  [] route = StudentsGet -> GetStudentById(req, id)
                  [] route = StudentsUpdate -> UpdateStudent(req, id, name)
                  [] route = StudentsDelete -> DeleteStudent(req, id)
                  [] route = CoursesList -> GetAll(req, "Course", {})
                  [] route = TeachersList -> GetAll(req, "Teacher", {})
        /\ UNCHANGED <<users, idCounter, pendingReg, pendingLogin,
                       answered201, issued, now, ticks, list, requests>>

----------------------------------------------------------------------------
(* The clock *)

Tick(d) ==
    /\ ticks < MaxTicks
    /\ ticks' = ticks + 1
    /\ now' = now + d
    /\ UNCHANGED <<users, idCounter, pendingReg, pendingLogin, last,
                   answered201, issued, students, studentId, list, requests>>

Next ==
    \/ \E b \in RegBodies : RegisterStart(b) /\ UNCHANGED requests
    \/ \E p \in pendingReg : RegisterFinish(p) /\ UNCHANGED requests
    \/ \E p \in pendingReg : RegisterError(p) /\ UNCHANGED requests
    \/ \E b \in LoginBodies : LoginStart(b) /\ UNCHANGED requests
    \/ \E p \in pendingLogin : LoginFinish(p) /\ UNCHANGED requests
    \/ \E p \in pendingLogin : LoginError(p) /\ UNCHANGED requests
    \/ \E h \in Headers(issued) : Http(UsersRoute, h, 1, "Ann")

Spec == Init /\ [][Next]_vars

\* Alice has registered: the state after register answered 201 to
\* {name: "Alice", email: "a@x.io", password: "pw1"}
InitGateway ==
    /\ users = <<[id |-> 1, name |-> "Alice", email |-> "a@x.io",
                  passwordHash |-> BcryptHash("pw1", SALT_ROUNDS, 1)]>>
    /\ idCounter = 2
    /\ pendingReg = {}
    /\ pendingLogin = {}
    /\ last = Response("register",
                       [name |-> "Alice", email |-> "a@x.io",
                        password |-> "pw1"],
                       201, [id |-> 1, name |-> "Alice", email |-> "a@x.io"],
                       TRUE)
    /\ answered201 = {"a@x.io"}
    /\ issued = {}
    /\ students = <<>>
    /\ studentId = 1
    /\ now = 0
    /\ ticks = 0
    /\ list = NoList
    /\ requests = <<>>

NextGateway ==
    \/ \E b \in GatewayLoginBodies : LoginStart(b) /\ UNCHANGED requests
    \/ \E p \in pendingLogin : LoginFinish(p) /\ UNCHANGED requests
    \/ \E p \in pendingLogin : LoginError(p) /\ UNCHANGED requests
    \/ \E r \in Routes, h \in Headers(issued), id \in 1..MaxStudents,
          name \in StudentNames :
          Http(r, h, id, name)
    \/ \E d \in TickSteps : Tick(d)

SpecGateway == InitGateway /\ [][NextGateway]_vars

----------------------------------------------------------------------------
(* The list handlers as functions of the raw query and of the table *)

\* getAllStudents / getAllTeachers / getAllCourses on the request received
ListRequest ==
    /\ ~list.served
    /\ list' = [list EXCEPT
                  !.served = TRUE,
                  !.opts = BuildQueryOptions(list.entity, list.query),
                  !.body = GetAllBody(list.entity, list.query, list.table)]
    /\ UNCHANGED <<users, idCounter, pendingReg, pendingLogin, last,
                   answered201, issued, students, studentId, now, ticks,
                   requests>>

\* any one list request has been received
InitQuery ==
    /\ users = <<>>
    /\ idCounter = 1
    /\ pendingReg = {}
    /\ pendingLogin = {}
    /\ last = NoResponse
    /\ answered201 = {}
    /\ issued = {}
    /\ students = <<>>
    /\ studentId = 1
    /\ now = 0
    /\ ticks = 0
    /\ list \in {ListReceived(e, q, t) :
                    e \in Entities, q \in Queries, t \in Tables}
    /\ requests = <<>>

NextQuery == ListRequest

SpecQuery == InitQuery /\ [][NextQuery]_vars

----------------------------------------------------------------------------
(* Each register and login request followed from its arrival to its        *)
(* response: the router hands it to its handler, the handler runs to its   *)
(* return or to its await, and resumes when the awaited promise settles    *)

\* a request as the router receives it
NewRequest(kind, b) ==
    [kind |-> kind, body |-> b, state |-> "Received", slot |-> 0,
     responses |-> <<>>]

\* the state of a request once the response with this status is sent
StateAfter(status) ==
    CASE status = 201 -> "Created"
      [] status = 200 -> "TokenIssued"
      [] OTHER -> "Rejected"

\* part_000:7-8  a POST /auth/register or POST /auth/login arrives
Receive(kind, b) ==
    /\ Len(requests) < MaxRequests
    /\ kind = "login"
       => Cardinality({i \in 1..Len(requests) : requests[i].kind = "login"})
          < MaxLogins
    /\ \A i \in 1..Len(requests) :
          requests[i].kind # kind \/ requests[i].body # b
    /\ requests' = Append(requests, NewRequest(kind, b))
    /\ UNCHANGED <<users, idCounter, pendingReg, pendingLogin, last,
                   answered201, issued, students, studentId, now, ticks, list>>

\* register runs for request r up to its return or its await
RegisterEnter(r) ==
    /\ r \in 1..Len(requests)
    /\ requests[r].kind = "register"
    /\ requests[r].state = "Received" /\ requests[r].slot = 0
    /\ RegisterStart(requests[r].body)
    /\ requests' =
         [requests EXCEPT ![r] =
            [@ EXCEPT
               !.responses = IF last' # last THEN Append(@, last'.status)
                             ELSE @,
               !.slot = IF pendingReg' # pendingReg
                        THEN (CHOOSE p \in pendingReg' \ pendingReg : TRUE).slot
                        ELSE 0,
               !.state = IF last' # last THEN StateAfter(last'.status)
                         ELSE IF pendingReg' # pendingReg THEN "Validated"
                         ELSE @]]

\* register resumes for request r when bcrypt.hash settles
RegisterResume(r) ==
    /\ r \in 1..Len(requests)
    /\ requests[r].kind = "register"
    /\ requests[r].slot # 0
    /\ \E p \in pendingReg :
          /\ p.slot = requests[r].slot
          /\ RegisterFinish(p) \/ RegisterError(p)
          /\ requests' =
               [requests EXCEPT ![r] =
                  [@ EXCEPT
                     !.responses = IF last' # last
                                   THEN Append(@, last'.status) ELSE @,
                     !.slot = IF p \in pendingReg' THEN @ ELSE 0,
                     !.state = IF last' # last THEN StateAfter(last'.status)
                               ELSE @]]

\* login runs for request r up to its return or its await
LoginEnter(r) ==
    /\ r \in 1..Len(requests)
    /\ requests[r].kind = "login"
    /\ requests[r].state = "Received" /\ requests[r].slot = 0
    /\ LoginStart(requests[r].body)
    /\ requests' =
         [requests EXCEPT ![r] =
            [@ EXCEPT
               !.responses = IF last' # last THEN Append(@, last'.status)
                             ELSE @,
               !.slot = IF pendingLogin' # pendingLogin
                        THEN (CHOOSE p \in pendingLogin' \ pendingLogin :
                                 TRUE).slot
                        ELSE 0,
               !.state = IF last' # last THEN StateAfter(last'.status)
                         ELSE IF pendingLogin' # pendingLogin THEN "Verified"
                         ELSE @]]

\* login resumes for request r when bcrypt.compare settles
LoginResume(r) ==
    /\ r \in 1..Len(requests)
    /\ requests[r].kind = "login"
    /\ requests[r].slot # 0
    /\ \E p \in pendingLogin :
          /\ p.slot = requests[r].slot
          /\ LoginFinish(p) \/ LoginError(p)
          /\ requests' =
               [requests EXCEPT ![r] =
                  [@ EXCEPT
                     !.responses = IF last' # last
                                   THEN Append(@, last'.status) ELSE @,
                     !.slot = IF p \in pendingLogin' THEN @ ELSE 0,
                     !.state = IF last' # last THEN StateAfter(last'.status)
                               ELSE @]]

NextRequests ==
    \/ \E b \in RequestRegBodies : Receive("register", b)
    \/ \E b \in RequestLoginBodies : Receive("login", b)
    \/ \E r \in 1..MaxRequests : RegisterEnter(r)
    \/ \E r \in 1..MaxRequests : RegisterResume(r)
    \/ \E r \in 1..MaxRequests : LoginEnter(r)
    \/ \E r \in 1..MaxRequests : LoginResume(r)

\* the event loop runs every handler it was handed and every continuation
\* whose promise has settled
EventLoop ==
    \A r \in 1..MaxRequests :
        /\ WF_vars(RegisterEnter(r)) /\ WF_vars(RegisterResume(r))
        /\ WF_vars(LoginEnter(r)) /\ WF_vars(LoginResume(r))

SpecRequests == Init /\ [][NextRequests]_vars /\ EventLoop

----------------------------------------------------------------------------
(* Properties of the credential store and of the auth handlers (Spec) *)

NonEmpty(b) == \A f \in DOMAIN b : b[f] # ""

\* C1: no two user records have the same email, whatever the interleaving
\* of register requests at the asynchronous hash.
C1_EmailsUnique ==
    \A i, j \in 1..Len(users) :
        i # j => users[i].email # users[j].email

\* C2 as stated: a register request that starts after a 201 for its email is
\* answered 409 and creates no record, whatever its name and password.
C2_DuplicateAlways409 ==
    [][\A b \in RegBodies :
          (RegisterStart(b) /\ b.email \in answered201)
          => /\ last' = Response("register", b, 409,
                                 [message |-> "Email already registered"],
                                 TRUE)
             /\ UNCHANGED <<users, idCounter, pendingReg>>]_vars

\* C2 amended: a register request that starts after a 201 for its email is
\* answered 409 when its name and password are non-empty and 400 when one
\* of them is absent or empty; either way it creates no record and starts
\* no hash.
C2_DuplicateAfter201 ==
    [][\A b \in RegBodies :
          (RegisterStart(b) /\ b.email \in answered201)
          => /\ last'.kind = "register" /\ last'.req = b
             /\ last'.status = (IF NonEmpty(b) THEN 409 ELSE 400)
             /\ last'.body.message =
                    (IF NonEmpty(b) THEN "Email already registered"
                     ELSE "Name, email, and password are required")
             /\ UNCHANGED <<users, idCounter, pendingReg>>]_vars

\* a second register for an email already answered 201 got 409
C2_Witness ==
    /\ last.kind = "register" /\ last.status = 409
    /\ last.req.email \in answered201
    /\ \E i \in 1..Len(users) :
          /\ users[i].email = last.req.email
          /\ ~BcryptCompare(last.req.password, users[i].passwordHash)

ErrorMessages ==
    {"Name, email, and password are required", "Email already registered",
     "Email and password are required", "Invalid credentials",
     "Illegal arguments: number, number", "Illegal arguments: number, string",
     "Unauthenticated"}

PublicFields == {"id", "name", "email"}

\* the record with the public fields of u and nothing else
IsPublicViewOf(body, u) ==
    /\ DOMAIN body = PublicFields
    /\ body.id = u.id /\ body.name = u.name /\ body.email = u.email

\* C3: the 201 body of register and every entry of the getAllUsers body have
\* exactly the fields id, name, email of the record, and no body of register,
\* login or getAllUsers (400, 401, 409 and 500 included) has a passwordHash
\* field or holds a hash.
C3_NoPasswordHash ==
    /\ (last.kind = "register" /\ last.status = 201)
       => \E i \in 1..Len(users) : IsPublicViewOf(last.body, users[i])
    /\ (last.kind = "http" /\ last.req.route = UsersRoute
        /\ last.status = 200)
       => /\ DOMAIN last.body = {"items"}
          /\ Len(last.body.items) = Len(users)
          /\ \A i \in 1..Len(users) :
                IsPublicViewOf(last.body.items[i], users[i])
    /\ (last.kind = "login" /\ last.status = 200)
       => /\ DOMAIN last.body = {"token"}
          /\ DOMAIN last.body.token = {"id", "email", "iat", "exp", "sig"}
          /\ last.body.token.email \in Emails
          /\ last.body.token.sig = "JWT_SECRET"
    /\ (last.kind \in {"register", "login", "http"}
        /\ last.status \in {400, 401, 409, 500})
       => /\ DOMAIN last.body = {"message"}
          /\ last.body.message \in ErrorMessages

\* getAllUsers answered with a list that holds a record
C3_Witness ==
    /\ last.kind = "http" /\ last.req.route = UsersRoute
    /\ last.status = 200 /\ Len(last.body.items) >= 1
    /\ users[1].passwordHash.alg = "bcrypt"

\* the store holds a record with this email and the hash of this password
Matches(us, b) ==
    \E i \in 1..Len(us) :
        /\ us[i].email = b.email
        /\ BcryptCompare(b.password, us[i].passwordHash)

Registered(us, email) == \E i \in 1..Len(us) : us[i].email = email

\* C4: a login with non-empty fields that does not present the password of
\* a registered email gets one and the same response, 401 with the body
\* "Invalid credentials", whether or not the email is in the store.
C4_LoginFailuresAlike ==
    (/\ last.kind = "login"
     /\ NonEmpty(last.req)
     /\ \/ ~Registered(users, last.req.email)
        \/ ~BcryptCompare(last.req.password,
                          FindUser(users, last.req.email).passwordHash))
    => /\ last.status = 401
       /\ last.body = [message |-> "Invalid credentials"]

\* C7: a login with non-empty fields is answered 200 with a token exactly
\* when the store, at the lookup, holds a record with that email and the
\* hash of that password; the token carries that record's id and email;
\* every other such login is answered 401 and issues no token.
C7_TokenIffMatch ==
    [][/\ \A b \in LoginBodies :
            (LoginStart(b) /\ NonEmpty(b) /\ pendingLogin' = pendingLogin)
            => /\ ~Matches(users, b)
               /\ last'.kind = "login" /\ last'.status = 401
       /\ \A p \in pendingLogin :
            (LoginFinish(p) \/ LoginError(p))
            => IF Matches(p.seen, p.body)
               THEN /\ last'.status = 200
                    /\ \E i \in 1..Len(p.seen) :
                          /\ p.seen[i].email = p.body.email
                          /\ BcryptCompare(p.body.password,
                                           p.seen[i].passwordHash)
                          /\ last'.body.token.id = p.seen[i].id
                          /\ last'.body.token.email = p.seen[i].email
               ELSE /\ last'.status = 401
                    /\ issued' = issued]_vars

----------------------------------------------------------------------------
(* Properties of the gateway and of the tokens (SpecGateway) *)

\* the routes the gateway protects: everything under /students, and
\* GET /auth/users
ProtectedRoutes ==
    {r \in Routes : r.mount = "/students"} \cup {UsersRoute}

\* the header is 'Bearer <token>' with a token that login issued and that
\* has not expired at time t
BearerVerified(header, t) ==
    /\ header.present
    /\ header.scheme = "Bearer"
    /\ header.token \in issued
    /\ t <= header.token.exp

\* C5: on a protected route the handler runs only for a request whose
\* bearer token the gateway verified; any other request is answered 401,
\* its handler does not run, and the student repository and the user list
\* stay as they were.
C5_GatewayFirst ==
    [][(last'.kind = "http" /\ last'.req.route \in ProtectedRoutes)
       => \A id \in 1..MaxStudents, name \in StudentNames :
             Http(last'.req.route, last'.req.header, id, name)
             => IF BearerVerified(last'.req.header, now)
                THEN last'.handlerRan /\ last'.status # 401
                ELSE /\ last'.status = 401
                     /\ last'.body = [message |-> "Unauthenticated"]
                     /\ ~last'.handlerRan
                     /\ UNCHANGED <<students, studentId, users,
                                    idCounter>>]_vars

\* a request with a forged token to POST /students was turned away
C5_Witness ==
    /\ last.kind = "http" /\ last.status = 401 /\ ~last.handlerRan
    /\ last.req.route = StudentsCreate
    /\ last.req.header.scheme = "Bearer"
    /\ last.req.header.token \in {Forge(t) : t \in issued}

SecondsPerHour == 60 * 60

BearerHeader(token) == [present |-> TRUE, scheme |-> "Bearer", token |-> token]

----------------------------------------------------------------------------
(* Properties of the query-option builder and of the list handlers         *)
(* (SpecQuery)                                                             *)

\* the limit of the specification: the parsed integer, 10 when there is
\* none, and 1 when it is below 1
ResolvedLimit(raw) ==
    LET n == ParseInt(raw)
    IN  IF n.nan THEN 10 ELSE IF AsInt(n) < 1 THEN 1 ELSE AsInt(n)

\* the page of the specification: the parsed integer, 1 when there is none
\* or when it is below 1
ResolvedPage(raw) ==
    LET n == ParseInt(raw)
    IN  IF n.nan THEN 1 ELSE IF AsInt(n) < 1 THEN 1 ELSE AsInt(n)

Served == list.served /\ list.entity \in Entities

\* C8: a list response echoes the resolved page and limit, and its
\* totalPages is ceil(total / limit) for the resolved limit.
C8_EchoResolved ==
    Served
    => /\ list.body.limit = list.opts.limit * Scale
       /\ list.body.page = ResolvedPage(list.query.page) * Scale
       /\ list.body.total = Len(list.table)
       /\ list.body.totalPages = CeilDiv(list.body.total, list.opts.limit)

\* C9: in each of the three builders limit is the parsed integer, 10 when
\* absent or unparsable and 1 when below 1, and page is the parsed integer,
\* 1 when absent, unparsable or below 1.
C9_LimitAndPageResolved ==
    Served
    => /\ list.opts.limit = ResolvedLimit(list.query.limit)
       /\ list.opts.offset =
              (ResolvedPage(list.query.page) - 1) * list.opts.limit

\* C10: the descriptor has limit >= 1, offset >= 0 and
\* offset = (page - 1) * limit for the resolved page; limit '-5' with page
\* '0' gives limit 1 and offset 0.
C10_LimitOffset ==
    Served
    => /\ list.opts.limit >= 1
       /\ list.opts.offset >= 0
       /\ ResolvedPage(list.query.page) >= 1
       /\ list.opts.offset =
              (ResolvedPage(list.query.page) - 1) * list.opts.limit
       /\ (list.query.limit = <<"-", "5">> /\ list.query.page = <<"0">>)
          => (list.opts.limit = 1 /\ list.opts.offset = 0)

\* limit '-5' with page '0' was served
C10_Witness ==
    /\ Served
    /\ list.query.limit = <<"-", "5">> /\ list.query.page = <<"0">>
    /\ list.opts.limit = 1 /\ list.opts.offset = 0

\* the relations the specification lists for each entity
ValidRelations(entity) ==
    CASE entity = "Student" -> {REL_COURSE}
      [] entity = "Teacher" -> {REL_COURSE}
      [] entity = "Course" -> {REL_STUDENT, REL_TEACHER}

AllRelations == {REL_COURSE, REL_STUDENT, REL_TEACHER}

\* the repository model a relation name stands for
ModelOf(r) ==
    CASE r = REL_COURSE -> "Course"
      [] r = REL_STUDENT -> "Student"
      [] r = REL_TEACHER -> "Teacher"

\* name is one of the comma-separated pieces of populate, once the piece is
\* trimmed and lowercased
Named(populate, name) ==
    \E a \in 1..Len(populate) : \E b \in a..Len(populate) :
        /\ a = 1 \/ populate[a - 1] = ","
        /\ b = Len(populate) \/ populate[b + 1] = ","
        /\ \A k \in a..b : populate[k] # ","
        /\ ToLowerCase(Trim(SubSeq(populate, a, b))) = name

\* C11: the include list holds a relation exactly when it is valid for the
\* entity and it, or the token 'all', is among the trimmed, lowercased names
\* of populate; it holds nothing else and nothing twice; other names add
\* nothing; an absent or empty populate gives an empty list; 'course, ALL'
\* gives every valid relation of the entity.
C11_RelationIncludes ==
    Served
    => LET include == list.opts.include
           populate == list.query.populate
       IN  /\ \A r \in AllRelations :
                 Includes(include, ModelOf(r))
                 <=> /\ r \in ValidRelations(list.entity)
                     /\ Named(populate, r) \/ Named(populate, REL_ALL)
           /\ \A i \in 1..Len(include) :
                 include[i] \in {ModelOf(r) : r \in AllRelations}
           /\ \A i, j \in 1..Len(include) :
                 include[i] = include[j] => i = j
           /\ populate = <<>> => include = <<>>
           /\ populate = POP_COURSE_ALL
              => {include[i] : i \in 1..Len(include)} =
                 {ModelOf(r) : r \in ValidRelations(list.entity)}

\* GET /courses?populate=course, ALL  was served with both relations
C11_Witness ==
    /\ Served
    /\ list.entity = "Course"
    /\ list.query.populate = POP_COURSE_ALL
    /\ list.opts.include = <<"Student", "Teacher">>

----------------------------------------------------------------------------
(* Validation, identifiers and the frame of the credential store (Spec) *)

\* C12: a register request with name, email or password absent or empty is
\* answered 400 and neither starts a hash nor inserts, and a login request
\* with email or password absent or empty is answered 400 and neither
\* starts a comparison nor issues a token, whatever the store holds: the
\* 400 comes before the 409 and the 401.
C12_MissingFieldFirst ==
    [][/\ \A b \in RegBodies :
            (RegisterStart(b) /\ ~NonEmpty(b))
            => /\ last' = Response("register", b, 400,
                     [message |-> "Name, email, and password are required"],
                     TRUE)
               /\ UNCHANGED <<users, idCounter, pendingReg, answered201>>
       /\ \A b \in LoginBodies :
            (LoginStart(b) /\ ~NonEmpty(b))
            => /\ last' = Response("login", b, 400,
                     [message |-> "Email and password are required"], TRUE)
               /\ UNCHANGED <<users, idCounter, pendingLogin, issued>>]_vars

\* a register request for a registered email, with a field missing, got 400
C12_Witness ==
    /\ last.kind = "register" /\ last.status = 400
    /\ Registered(users, last.req.email)
    /\ last.req.name = "" \/ last.req.password = ""

\* C14: the ids of the user records are pairwise distinct and strictly
\* increasing in insertion order, and idCounter is greater than each of
\* them, under every interleaving of register requests.
C14_IdsMonotonic ==
    /\ \A i, j \in 1..Len(users) :
          /\ i # j => users[i].id # users[j].id
          /\ i < j => users[i].id < users[j].id
    /\ \A i \in 1..Len(users) : users[i].id < idCounter

\* two registrations that were in flight together have both been inserted
C14_Witness ==
    /\ Len(users) >= 2
    /\ users[1].email = users[2].email
    /\ users[1].id = 1 /\ users[2].id = 2 /\ idCounter = 3

\* C15: a register request answered 400 or 409 leaves the user list and
\* idCounter as they were; login and getAllUsers leave them as they were
\* whatever they answer; the list changes only when a register is answered
\* 201, by one record appended after the existing ones, and idCounter
\* changes only then.
C15_StoreFrame ==
    [][/\ \A b \in RegBodies :
            (RegisterStart(b) /\ pendingReg' = pendingReg)
            => /\ last'.status \in {400, 409}
               /\ UNCHANGED <<users, idCounter>>
       /\ \A b \in LoginBodies :
            LoginStart(b) => UNCHANGED <<users, idCounter>>
       /\ \A p \in pendingLogin :
            (LoginFinish(p) \/ LoginError(p))
            => UNCHANGED <<users, idCounter>>
       /\ \A h \in Headers(issued) :
            Http(UsersRoute, h, 1, "Ann") => UNCHANGED <<users, idCounter>>
       /\ Len(users') \in {Len(users), Len(users) + 1}
       /\ SubSeq(users', 1, Len(users)) = users
       /\ users' # users
          => /\ last'.kind = "register" /\ last'.status = 201
             /\ idCounter' = idCounter + 1
       /\ users' = users => idCounter' = idCounter]_vars

\* with a record stored and a token issued, a register was answered 409
\* and no id was consumed
C15_Witness ==
    /\ last.kind = "register" /\ last.status = 409
    /\ Len(users) = 1 /\ idCounter = 2
    /\ issued # {}

----------------------------------------------------------------------------
(* The life of one request (SpecRequests) *)

TerminalStates == {"Created", "TokenIssued", "Rejected"}

\* the moves of a request: a handler that answers before its await takes
\* the request from Received to Rejected in one step
Moves(kind) ==
    IF kind = "register"
    THEN {<<"Received", "Validated">>, <<"Received", "Rejected">>,
          <<"Validated", "Created">>, <<"Validated", "Rejected">>}
    ELSE {<<"Received", "Verified">>, <<"Received", "Rejected">>,
          <<"Verified", "TokenIssued">>, <<"Verified", "Rejected">>}

Statuses(kind) ==
    IF kind = "register" THEN {201, 400, 409, 500} ELSE {200, 400, 401, 500}

====
